---- MODULE Spec2Model ----
(***************************************************************************)
(* A model of the ENB platform API server (src/backend/server.js).         *)
(*                                                                         *)
(* The store (Firestore collections), the relayer's transactions and the   *)
(* host clock are the state.  Every route handler is cut at its awaits:    *)
(* one action per stretch of code that runs between two awaits, so that    *)
(* the steps of requests in flight interleave as they do on the server.    *)
(* Time is counted in hours since the local midnight of day 1.             *)
(***************************************************************************)
EXTENDS Integers, Sequences, FiniteSets, TLC

VARIABLES
    accounts,         \* collection 'accounts': wallet -> document or NoDoc
    invitationUsage,  \* collection 'invitationUsage': the documents, in order of creation
    transactions,     \* collection 'transactions': the documents, in order of creation
    claims,           \* collection 'claims': wallet -> document or NoDoc
    upgrades,         \* collection 'upgrades': wallet -> document or NoDoc
    relayTxs,         \* transactions the relayer wallet has sent; tx.hash is the index
    req,              \* the requests in flight: slot -> position and locals of its handler
    clock,            \* the host clock (new Date()), in hours
    dayLength,        \* the host's time zone: length in hours of each local calendar day
    nreq              \* number of requests received so far

vars == <<accounts, invitationUsage, transactions, claims, upgrades, relayTxs,
          req, clock, dayLength, nreq>>

store == <<accounts, invitationUsage, transactions, claims, upgrades>>

----------------------------------------------------------------------------
(* Bounds of the model *)

MaxWallets == 3
MaxProcs == 2
MaxDays == 3
MaxSeqRequests == 5
MaxRequests == 4
MaxRelayRequests == 3
MaxStreak == 6

(* Constants of the program *)

HoursPerDay == 24
BaseReward == 10
StreakCap == 5
DefaultMaxUses == 5
DefaultUserMaxUses == 105
MaxAttempts == 10

Wallets == 1..MaxWallets
Procs == 1..MaxProcs
Days == 1..MaxDays
Codes == {"A1", "B2", "C3"}
Levels == {"Based", "Super Based", "Legendary"}

\* membershipLevel of an update-membership body: the levels, a key that
\* levelMapping inherits, and a string that is no key
LevelInputs == Levels \cup {"constructor", "Gold"}

----------------------------------------------------------------------------
(* JavaScript values *)

\* null / undefined / a missing field is the empty tuple, a present value v is <<v>>
Undefined == <<>>
Some(v) == <<v>>

\* x || d for a number field: undefined and 0 are falsy
OrDefault(x, d) == IF x = Undefined \/ x[1] = 0 THEN d ELSE x[1]

Min(a, b) == IF a < b THEN a ELSE b

NoDoc == [exists |-> FALSE]

\* the keys every object literal inherits from Object.prototype
InheritedKeys ==
    {"constructor", "__defineGetter__", "__defineSetter__", "hasOwnProperty",
     "__lookupGetter__", "__lookupSetter__", "isPrototypeOf",
     "propertyIsEnumerable", "toString", "valueOf", "__proto__", "toLocaleString"}

----------------------------------------------------------------------------
(* Local time: new Date(y, m, d) is the local midnight of a calendar date *)

RECURSIVE Midnight(_)
Midnight(d) == IF d <= 1 THEN 0 ELSE Midnight(d - 1) + dayLength[d - 1]

EndOfTime == Midnight(MaxDays + 1)

\* the local calendar date (getFullYear, getMonth, getDate) of a timestamp
LocalDate(t) == CHOOSE d \in Days : Midnight(d) <= t /\ t < Midnight(d + 1)

\* new Date(t.getFullYear(), t.getMonth(), t.getDate()).getTime()
LocalMidnight(t) == Midnight(LocalDate(t))

----------------------------------------------------------------------------
(* Requests in flight *)

Idle == [pc |-> "idle"]

Free(p) == req[p].pc \in {"idle", "done"}

\* r with the fields of s added or replaced
Extend(r, s) ==
    [k \in DOMAIN r \cup DOMAIN s |-> IF k \in DOMAIN s THEN s[k] ELSE r[k]]

\* a request as it arrives: its route, its order of arrival and its body
Request(kind, body) == [pc |-> "start", kind |-> kind, id |-> nreq + 1, body |-> body]

\* the handler goes on to the await named pc, with these locals set
Goto(r, pc, locals) == Extend([r EXCEPT !.pc = pc], locals)

\* res.status(status).json(fields): the handler is over
Reply(r, status, fields) ==
    Extend([pc |-> "done", kind |-> r.kind, id |-> r.id, body |-> r.body,
            status |-> status], fields)

Failure(r, status, error) == Reply(r, status, [error |-> error])

\* a slot takes the next request, if the run may still receive one
Receive(p, limit) ==
    /\ Free(p)
    /\ nreq < limit
    /\ nreq' = nreq + 1

----------------------------------------------------------------------------
(* Documents and queries *)

\* the document both creation routes write; create-account leaves the two
\* invitation counters out
NewAccount(w, code, maxUses, currentUses, activated) ==
    [exists |-> TRUE,
     walletAddress |-> w,
     membershipLevel |-> "Based",
     invitationCode |-> code,
     maxInvitationUses |-> maxUses,
     currentInvitationUses |-> currentUses,
     lastDailyClaimTime |-> Undefined,
     consecutiveDays |-> 0,
     enbBalance |-> 0,
     totalEarned |-> 0,
     isActivated |-> activated,
     activatedBy |-> Undefined,
     inviterWallet |-> Undefined,
     lastTransactionHash |-> Undefined,
     upgradeTransactionHash |-> Undefined]

\* db.collection('accounts').where('invitationCode', '==', code)
AccountsWithCode(code) ==
    {w \in Wallets : accounts[w].exists /\ accounts[w].invitationCode = code}

\* .limit(1).get(): the store returns documents in the order of their ids
FirstWithCode(code) ==
    CHOOSE w \in AccountsWithCode(code) : \A v \in AccountsWithCode(code) : w <= v

isInvitationCodeUnique(code) == AccountsWithCode(code) = {}

\* db.collection('invitationUsage').where(invitationCode).where(usedBy)
UsagesOf(code, w) ==
    {i \in DOMAIN invitationUsage :
        invitationUsage[i].invitationCode = code /\ invitationUsage[i].usedBy = w}

----------------------------------------------------------------------------
(* POST /api/create-account *)

\* the loop giving up one candidate early
GenerateAttemptEarly(r, attempts, code) ==
    IF attempts >= MaxAttempts
    THEN [pc |-> "done", kind |-> r.kind, id |-> r.id, body |-> r.body,
          status |-> 500, error |-> "Failed to create account"]
    ELSE IF AccountsWithCode(code) = {}
    THEN Extend([r EXCEPT !.pc = "ca_write"], [invitationCode |-> code])
    ELSE Extend([r EXCEPT !.pc = "ca_generate"], [attempts |-> attempts])

\* one turn of the do-while loop of generateUniqueInvitationCode, with the
\* candidate the random generator returned
GenerateAttempt(r, attempts, code) ==
    IF attempts > MaxAttempts
    THEN Failure(r, 500, "Failed to create account")
    ELSE IF isInvitationCodeUnique(code)
    THEN Goto(r, "ca_write", [invitationCode |-> code])
    ELSE Goto(r, "ca_generate", [attempts |-> attempts])

CreateAccount(p, w, code, limit) ==
    /\ Receive(p, limit)
    /\ req' = [req EXCEPT ![p] =
           GenerateAttempt(Request("create-account", [walletAddress |-> w]), 1, code)]
    /\ UNCHANGED <<store, relayTxs, clock, dayLength>>

CreateAccountRetry(p, code) ==
    /\ req[p].pc = "ca_generate"
    /\ req' = [req EXCEPT ![p] = GenerateAttempt(req[p], req[p].attempts + 1, code)]
    /\ UNCHANGED <<store, relayTxs, clock, dayLength, nreq>>

CreateAccountWrite(p) ==
    /\ req[p].pc = "ca_write"
    /\ LET w == req[p].body.walletAddress IN
         accounts' = [accounts EXCEPT ![w] =
             NewAccount(w, req[p].invitationCode, Undefined, Undefined, FALSE)]
    /\ req' = [req EXCEPT ![p] =
           Reply(req[p], 201, [message |-> "Account created successfully"])]
    /\ UNCHANGED <<invitationUsage, transactions, claims, upgrades, relayTxs,
                   clock, dayLength, nreq>>

----------------------------------------------------------------------------
(* POST /api/create-default-user *)

\* maxUses || 105
DefaultUserLimit(maxUses) == Some(OrDefault(maxUses, DefaultUserMaxUses))

CreateDefaultUser(p, w, code, maxUses, limit) ==
    /\ Receive(p, limit)
    /\ LET r == Request("create-default-user",
                   [walletAddress |-> w, invitationCode |-> code, maxUses |-> maxUses])
       IN req' = [req EXCEPT ![p] =
              IF ~isInvitationCodeUnique(code)
              THEN Failure(r, 400, "Invitation code already exists")
              ELSE Goto(r, "cdu_write", <<>>)]
    /\ UNCHANGED <<store, relayTxs, clock, dayLength>>

CreateDefaultUserWrite(p) ==
    /\ req[p].pc = "cdu_write"
    /\ LET b == req[p].body IN
         accounts' = [accounts EXCEPT ![b.walletAddress] =
             NewAccount(b.walletAddress, b.invitationCode,
                        DefaultUserLimit(b.maxUses), Some(0), TRUE)]
    /\ req' = [req EXCEPT ![p] =
           Reply(req[p], 201, [message |-> "Default user created successfully"])]
    /\ UNCHANGED <<invitationUsage, transactions, claims, upgrades, relayTxs,
                   clock, dayLength, nreq>>

----------------------------------------------------------------------------
(* POST /api/activate-account *)

\* inviterData.maxInvitationUses || 5 and inviterData.currentInvitationUses || 0
InviterMaxUses(inviterData) == OrDefault(inviterData.maxInvitationUses, DefaultMaxUses)
InviterCurrentUses(inviterData) == OrDefault(inviterData.currentInvitationUses, 0)

\* the limit check off by one: the code can be used once more than its limit
LimitReachedOffByOne(currentUses, maxUses) == currentUses > maxUses

\* the usage limit check of the handler
LimitReached(currentUses, maxUses) == currentUses >= maxUses

\* the request arrives and the account document is read
ActivateAccountRead(r) ==
    LET accountData == accounts[r.body.walletAddress] IN
    IF ~accountData.exists
    THEN Failure(r, 404, "Account not found")
    ELSE IF accountData.isActivated
    THEN Failure(r, 400, "Account is already activated")
    ELSE Goto(r, "aa_inviter", [membershipLevel |-> accountData.membershipLevel])

ActivateAccount(p, w, code, limit) ==
    /\ Receive(p, limit)
    /\ req' = [req EXCEPT ![p] = ActivateAccountRead(
           Request("activate-account", [walletAddress |-> w, invitationCode |-> code]))]
    /\ UNCHANGED <<store, relayTxs, clock, dayLength>>

\* the inviter is looked up by the code, then checked
ActivateAccountCheckInviter(r) ==
    IF AccountsWithCode(r.body.invitationCode) = {}
    THEN Failure(r, 400, "Invalid invitation code")
    ELSE LET inviterData == accounts[FirstWithCode(r.body.invitationCode)]
             maxUses == InviterMaxUses(inviterData)
             currentUses == InviterCurrentUses(inviterData)
         IN IF ~inviterData.isActivated
            THEN Failure(r, 400, "Invitation code is from an inactive account")
            ELSE IF LimitReached(currentUses, maxUses)
            THEN Failure(r, 400, "Invitation code usage limit exceeded")
            ELSE Goto(r, "aa_usage", [inviterWallet |-> inviterData.walletAddress,
                                      maxUses |-> maxUses, currentUses |-> currentUses])

ActivateAccountInviter(p) ==
    /\ req[p].pc = "aa_inviter"
    /\ req' = [req EXCEPT ![p] = ActivateAccountCheckInviter(req[p])]
    /\ UNCHANGED <<store, relayTxs, clock, dayLength, nreq>>

\* has this wallet used this code before?
ActivateAccountCheckUsage(r) ==
    IF UsagesOf(r.body.invitationCode, r.body.walletAddress) # {}
    THEN Failure(r, 400, "You have already used this invitation code")
    ELSE Goto(r, "aa_commit", <<>>)

ActivateAccountUsage(p) ==
    /\ req[p].pc = "aa_usage"
    /\ req' = [req EXCEPT ![p] = ActivateAccountCheckUsage(req[p])]
    /\ UNCHANGED <<store, relayTxs, clock, dayLength, nreq>>

\* the three writes of the batch
ActivatedAccount(doc, code, inviterWallet) ==
    [doc EXCEPT !.isActivated = TRUE,
                !.activatedBy = Some(code),
                !.inviterWallet = Some(inviterWallet)]

InviterAfterUse(doc, currentUses) ==
    [doc EXCEPT !.currentInvitationUses = Some(currentUses + 1)]

UsageLog(code, w, inviterWallet) ==
    [invitationCode |-> code, usedBy |-> w, inviterWallet |-> inviterWallet]

\* batch.commit(): the account, the inviter's counter and the usage record at once
ActivateAccountCommit(p) ==
    /\ req[p].pc = "aa_commit"
    /\ LET w == req[p].body.walletAddress
           code == req[p].body.invitationCode
           inviter == req[p].inviterWallet
           activated == [accounts EXCEPT ![w] = ActivatedAccount(@, code, inviter)]
       IN /\ accounts' = [activated EXCEPT ![inviter] =
                              InviterAfterUse(@, req[p].currentUses)]
          /\ invitationUsage' = Append(invitationUsage, UsageLog(code, w, inviter))
          /\ req' = [req EXCEPT ![p] = Reply(req[p], 200,
                 [message |-> "Account activated successfully",
                  membershipLevel |-> req[p].membershipLevel,
                  inviterWallet |-> inviter,
                  remainingUses |-> req[p].maxUses - (req[p].currentUses + 1)])]
    /\ UNCHANGED <<transactions, claims, upgrades, relayTxs, clock, dayLength, nreq>>

----------------------------------------------------------------------------
(* POST /api/daily-claim, the relayer-backed handler *)

\* the check with the time of the last claim not cut down to its date
ClaimedTodayUntruncated(accountData, today) ==
    /\ accountData.lastDailyClaimTime # Undefined
    /\ accountData.lastDailyClaimTime[1] = today

\* lastClaimDate.getTime() === today.getTime()
ClaimedToday(accountData, today) ==
    /\ accountData.lastDailyClaimTime # Undefined
    /\ LocalMidnight(accountData.lastDailyClaimTime[1]) = today

\* the comparison with yesterday taken for 'yesterday or before'
ClaimedYesterdayOrBefore(accountData, today) ==
    /\ accountData.lastDailyClaimTime # Undefined
    /\ LocalMidnight(accountData.lastDailyClaimTime[1]) <= today - HoursPerDay

\* lastClaimDate.getTime() === yesterday.getTime(),
\* yesterday = new Date(today.getTime() - 24 * 60 * 60 * 1000)
ClaimedYesterday(accountData, today) ==
    /\ accountData.lastDailyClaimTime # Undefined
    /\ LocalMidnight(accountData.lastDailyClaimTime[1]) = today - HoursPerDay

ConsecutiveDays(accountData, today) ==
    IF ClaimedYesterday(accountData, today) THEN accountData.consecutiveDays + 1 ELSE 1

EnbReward(accountData, today) ==
    IF ClaimedYesterday(accountData, today)
    THEN BaseReward * Min(ConsecutiveDays(accountData, today), StreakCap)
    ELSE BaseReward

\* membershipMultiplier[level] || 1, in halves: 1, 1.5 and 2, and 1 for a level
\* that is no key.  (For a key inherited from Object.prototype the product is
\* NaN; no account holds such a level, see UpdateMembershipSubmit.)
MembershipHalves(level) ==
    CASE level = "Based" -> 2
      [] level = "Super Based" -> 3
      [] level = "Legendary" -> 4
      [] level \notin InheritedKeys -> 2

\* Math.floor(enbReward * membershipMultiplier[level])
FinalReward(enbReward, level) == (enbReward * MembershipHalves(level)) \div 2

\* the request arrives, the account is read, the streak and the reward are computed
DailyClaimRead(r) ==
    LET accountData == accounts[r.body.walletAddress]
        today == LocalMidnight(clock)
    IN IF ~accountData.exists
       THEN Failure(r, 404, "Account not found")
       ELSE IF ~accountData.isActivated
       THEN Failure(r, 400, "Account is not activated")
       ELSE IF ClaimedToday(accountData, today)
       THEN Failure(r, 400, "Already claimed today")
       ELSE Goto(r, "dc_submit",
                [now |-> clock,
                 consecutiveDays |-> ConsecutiveDays(accountData, today),
                 finalReward |-> FinalReward(EnbReward(accountData, today),
                                             accountData.membershipLevel),
                 enbBalance |-> accountData.enbBalance,
                 totalEarned |-> accountData.totalEarned])

DailyClaim(p, w, limit) ==
    /\ Receive(p, limit)
    /\ req' = [req EXCEPT ![p] =
           DailyClaimRead(Request("daily-claim", [walletAddress |-> w]))]
    /\ UNCHANGED <<store, relayTxs, clock, dayLength>>

\* a transaction of the relayer wallet, as sent
RelayTx(method, user) == [method |-> method, user |-> user, status |-> "pending"]

\* the call without the await of tx.wait(): the handler goes on to the store
DailyClaimSubmitNoWait(p) ==
    /\ req[p].pc = "dc_submit"
    /\ relayTxs' = Append(relayTxs, [method |-> "dailyClaim",
                                     user |-> req[p].body.walletAddress,
                                     status |-> "pending"])
    /\ req' = [req EXCEPT ![p] =
           Extend([req[p] EXCEPT !.pc = "dc_update"], [tx |-> Len(relayTxs) + 1])]
    /\ UNCHANGED <<store, clock, dayLength, nreq>>

\* contract.dailyClaim(walletAddress) sends the transaction
DailyClaimSubmit(p) ==
    /\ req[p].pc = "dc_submit"
    /\ relayTxs' = Append(relayTxs, RelayTx("dailyClaim", req[p].body.walletAddress))
    /\ req' = [req EXCEPT ![p] = Goto(req[p], "dc_wait", [tx |-> Len(relayTxs) + 1])]
    /\ UNCHANGED <<store, clock, dayLength, nreq>>

\* contract.dailyClaim(walletAddress) throws: nothing was sent
DailyClaimSubmitFails(p) ==
    /\ req[p].pc = "dc_submit"
    /\ req' = [req EXCEPT ![p] = Failure(req[p], 500, "Failed to process daily claim")]
    /\ UNCHANGED <<store, relayTxs, clock, dayLength, nreq>>

\* tx.wait() returns: the transaction is confirmed
DailyClaimConfirm(p) ==
    /\ req[p].pc = "dc_wait"
    /\ relayTxs' = [relayTxs EXCEPT ![req[p].tx].status = "confirmed"]
    /\ req' = [req EXCEPT ![p] = Goto(req[p], "dc_update", <<>>)]
    /\ UNCHANGED <<store, clock, dayLength, nreq>>

\* tx.wait() throws: the transaction reverted
DailyClaimRevert(p) ==
    /\ req[p].pc = "dc_wait"
    /\ relayTxs' = [relayTxs EXCEPT ![req[p].tx].status = "reverted"]
    /\ req' = [req EXCEPT ![p] = Failure(req[p], 500, "Failed to process daily claim")]
    /\ UNCHANGED <<store, clock, dayLength, nreq>>

\* accountRef.update({...})
ClaimedAccount(doc, r) ==
    [doc EXCEPT !.lastDailyClaimTime = Some(r.now),
                !.consecutiveDays = r.consecutiveDays,
                !.enbBalance = r.enbBalance + r.finalReward,
                !.totalEarned = r.totalEarned + r.finalReward,
                !.lastTransactionHash = Some(r.tx)]

DailyClaimUpdate(p) ==
    /\ req[p].pc = "dc_update"
    /\ accounts' = [accounts EXCEPT ![req[p].body.walletAddress] =
                        ClaimedAccount(@, req[p])]
    /\ req' = [req EXCEPT ![p] = Goto(req[p], "dc_log", <<>>)]
    /\ UNCHANGED <<invitationUsage, transactions, claims, upgrades, relayTxs,
                   clock, dayLength, nreq>>

\* db.collection("claims").doc(walletAddress).set({...}), then the 200 response
DailyClaimLog(p) ==
    /\ req[p].pc = "dc_log"
    /\ LET r == req[p] IN
         /\ claims' = [claims EXCEPT ![r.body.walletAddress] =
                [exists |-> TRUE, claimedAt |-> r.now, reward |-> r.finalReward,
                 consecutiveDays |-> r.consecutiveDays, txHash |-> r.tx]]
         /\ req' = [req EXCEPT ![p] = Reply(r, 200,
                [message |-> "Daily claim successful via relayer",
                 reward |-> r.finalReward, txHash |-> r.tx,
                 newBalance |-> r.enbBalance + r.finalReward,
                 consecutiveDays |-> r.consecutiveDays, now |-> r.now])]
    /\ UNCHANGED <<accounts, invitationUsage, transactions, upgrades, relayTxs,
                   clock, dayLength, nreq>>

\* accountRef.update({...}) throws: the store did not take the write
DailyClaimUpdateFails(p) ==
    /\ req[p].pc = "dc_update"
    /\ req' = [req EXCEPT ![p] = Failure(req[p], 500, "Failed to process daily claim")]
    /\ UNCHANGED <<store, relayTxs, clock, dayLength, nreq>>

\* db.collection("claims").doc(walletAddress).set({...}) throws, after the
\* account was updated
DailyClaimLogFails(p) ==
    /\ req[p].pc = "dc_log"
    /\ req' = [req EXCEPT ![p] = Failure(req[p], 500, "Failed to process daily claim")]
    /\ UNCHANGED <<store, relayTxs, clock, dayLength, nreq>>

----------------------------------------------------------------------------
(* POST /api/update-membership *)

\* membershipLevel in levelMapping: own keys and inherited keys
InLevelMapping(level) == level \in Levels \cup InheritedKeys

\* levelMapping[membershipLevel]: the number of a level, or the member of
\* Object.prototype an inherited key names (a function or an object)
LevelNumber(level) ==
    CASE level = "Based" -> 0
      [] level = "Super Based" -> 1
      [] level = "Legendary" -> 2
      [] level \in InheritedKeys -> [member |-> level]

\* can the wallet library encode levelMapping[membershipLevel] as the level
\* argument of the contract?  A number it can; a function or an object makes
\* the call throw
Encodable(level) == level \in Levels

UpdateMembershipRead(r) ==
    LET accountData == accounts[r.body.walletAddress] IN
    IF ~InLevelMapping(r.body.membershipLevel)
    THEN Failure(r, 400, "Invalid membership level")
    ELSE IF ~accountData.exists
    THEN Failure(r, 404, "Account not found")
    ELSE IF ~accountData.isActivated
    THEN Failure(r, 400, "Account is not activated")
    ELSE Goto(r, "um_submit", <<>>)

UpdateMembership(p, w, level, limit) ==
    /\ Receive(p, limit)
    /\ req' = [req EXCEPT ![p] = UpdateMembershipRead(
           Request("update-membership", [walletAddress |-> w, membershipLevel |-> level]))]
    /\ UNCHANGED <<store, relayTxs, clock, dayLength>>

\* contract.upgradeMembership(walletAddress, targetLevel) sends the transaction
UpdateMembershipSubmit(p) ==
    /\ req[p].pc = "um_submit"
    /\ Encodable(req[p].body.membershipLevel)
    /\ relayTxs' = Append(relayTxs,
                          RelayTx("upgradeMembership", req[p].body.walletAddress))
    /\ req' = [req EXCEPT ![p] = Goto(req[p], "um_wait", [tx |-> Len(relayTxs) + 1])]
    /\ UNCHANGED <<store, clock, dayLength, nreq>>

UpdateMembershipSubmitFails(p) ==
    /\ req[p].pc = "um_submit"
    /\ req' = [req EXCEPT ![p] =
           Failure(req[p], 500, "Failed to upgrade membership level")]
    /\ UNCHANGED <<store, relayTxs, clock, dayLength, nreq>>

UpdateMembershipConfirm(p) ==
    /\ req[p].pc = "um_wait"
    /\ relayTxs' = [relayTxs EXCEPT ![req[p].tx].status = "confirmed"]
    /\ req' = [req EXCEPT ![p] = Goto(req[p], "um_update", <<>>)]
    /\ UNCHANGED <<store, clock, dayLength, nreq>>

UpdateMembershipRevert(p) ==
    /\ req[p].pc = "um_wait"
    /\ relayTxs' = [relayTxs EXCEPT ![req[p].tx].status = "reverted"]
    /\ req' = [req EXCEPT ![p] =
           Failure(req[p], 500, "Failed to upgrade membership level")]
    /\ UNCHANGED <<store, clock, dayLength, nreq>>

\* accountRef.update({membershipLevel, lastUpgradeAt, upgradeTransactionHash})
UpgradedAccount(doc, r) ==
    [doc EXCEPT !.membershipLevel = r.body.membershipLevel,
                !.upgradeTransactionHash = Some(r.tx)]

UpdateMembershipUpdate(p) ==
    /\ req[p].pc = "um_update"
    /\ accounts' = [accounts EXCEPT ![req[p].body.walletAddress] =
                        UpgradedAccount(@, req[p])]
    /\ req' = [req EXCEPT ![p] = Goto(req[p], "um_log", <<>>)]
    /\ UNCHANGED <<invitationUsage, transactions, claims, upgrades, relayTxs,
                   clock, dayLength, nreq>>

\* db.collection("upgrades").doc(walletAddress).set({...}), then the 200 response
UpdateMembershipLog(p) ==
    /\ req[p].pc = "um_log"
    /\ LET r == req[p] IN
         /\ upgrades' = [upgrades EXCEPT ![r.body.walletAddress] =
                [exists |-> TRUE, level |-> LevelNumber(r.body.membershipLevel),
                 txHash |-> r.tx]]
         /\ req' = [req EXCEPT ![p] = Reply(r, 200,
                [message |-> "Membership level upgraded via relayer",
                 newLevel |-> r.body.membershipLevel, txHash |-> r.tx])]
    /\ UNCHANGED <<accounts, invitationUsage, transactions, claims, relayTxs,
                   clock, dayLength, nreq>>

----------------------------------------------------------------------------
(* POST /api/update-balance *)

\* parseFloat(amount), amount a JSON number
ParseFloat(amount) == amount

\* the comparison the wrong way round
InsufficientInverted(currentBalance, transactionAmount) ==
    currentBalance > transactionAmount

\* currentBalance < transactionAmount
Insufficient(currentBalance, transactionAmount) == currentBalance < transactionAmount

NewBalance(currentBalance, transactionAmount, type) ==
    IF type = "credit"
    THEN currentBalance + transactionAmount
    ELSE currentBalance - transactionAmount

UpdateBalanceRead(r) ==
    LET accountData == accounts[r.body.walletAddress] IN
    IF r.body.type \notin {"credit", "debit"}
    THEN Failure(r, 400, "Invalid transaction type")
    ELSE IF ~accountData.exists
    THEN Failure(r, 404, "Account not found")
    ELSE LET currentBalance == accountData.enbBalance
             transactionAmount == ParseFloat(r.body.amount)
         IN IF r.body.type = "debit" /\ Insufficient(currentBalance, transactionAmount)
            THEN Failure(r, 400, "Insufficient balance")
            ELSE Goto(r, "ub_commit",
                     [transactionAmount |-> transactionAmount,
                      currentBalance |-> currentBalance,
                      newBalance |->
                          NewBalance(currentBalance, transactionAmount, r.body.type)])

UpdateBalance(p, w, amount, type, limit) ==
    /\ Receive(p, limit)
    /\ req' = [req EXCEPT ![p] = UpdateBalanceRead(
           Request("update-balance", [walletAddress |-> w, amount |-> amount,
                                      type |-> type]))]
    /\ UNCHANGED <<store, relayTxs, clock, dayLength>>

\* the transaction record of the handler
TransactionData(r) ==
    [walletAddress |-> r.body.walletAddress, amount |-> r.transactionAmount,
     type |-> r.body.type, balanceBefore |-> r.currentBalance,
     balanceAfter |-> r.newBalance]

\* batch.commit(): the balance and the transaction record at once
UpdateBalanceCommit(p) ==
    /\ req[p].pc = "ub_commit"
    /\ LET r == req[p] IN
         /\ accounts' = [accounts EXCEPT ![r.body.walletAddress].enbBalance =
                             r.newBalance]
         /\ transactions' = Append(transactions, TransactionData(r))
         /\ req' = [req EXCEPT ![p] = Reply(r, 200,
                [message |-> "Balance updated successfully",
                 previousBalance |-> r.currentBalance, newBalance |-> r.newBalance])]
    /\ UNCHANGED <<invitationUsage, claims, upgrades, relayTxs, clock, dayLength, nreq>>

----------------------------------------------------------------------------
(* POST /relay/daily-claim and POST /relay/upgrade-membership *)

\* the handler calls contract.dailyClaim(user) as soon as the body is parsed
RelayDailyClaim(p, user, limit) ==
    /\ Receive(p, limit)
    /\ relayTxs' = Append(relayTxs, RelayTx("dailyClaim", user))
    /\ req' = [req EXCEPT ![p] =
           Goto(Request("relay-daily-claim", [user |-> user]), "rdc_wait",
                [tx |-> Len(relayTxs) + 1])]
    /\ UNCHANGED <<store, clock, dayLength>>

\* contract.dailyClaim(user) throws: nothing was sent
RelayDailyClaimFails(p, user, limit) ==
    /\ Receive(p, limit)
    /\ req' = [req EXCEPT ![p] =
           Failure(Request("relay-daily-claim", [user |-> user]), 500, "err.message")]
    /\ UNCHANGED <<store, relayTxs, clock, dayLength>>

\* tx.wait() returns; the handler reads the clock (new Date().toISOString())
\* and issues the write of the claims log
RelayDailyClaimConfirm(p) ==
    /\ req[p].pc = "rdc_wait"
    /\ relayTxs' = [relayTxs EXCEPT ![req[p].tx].status = "confirmed"]
    /\ req' = [req EXCEPT ![p] = Goto(req[p], "rdc_log", [lastClaimed |-> clock])]
    /\ UNCHANGED <<store, clock, dayLength, nreq>>

RelayDailyClaimRevert(p) ==
    /\ req[p].pc = "rdc_wait"
    /\ relayTxs' = [relayTxs EXCEPT ![req[p].tx].status = "reverted"]
    /\ req' = [req EXCEPT ![p] = Failure(req[p], 500, "err.message")]
    /\ UNCHANGED <<store, clock, dayLength, nreq>>

\* db.collection("claims").doc(user).set({lastClaimed, txHash}), then the response
RelayDailyClaimLog(p) ==
    /\ req[p].pc = "rdc_log"
    /\ claims' = [claims EXCEPT ![req[p].body.user] =
           [exists |-> TRUE, lastClaimed |-> req[p].lastClaimed, txHash |-> req[p].tx]]
    /\ req' = [req EXCEPT ![p] =
           Reply(req[p], 200, [success |-> TRUE, txHash |-> req[p].tx])]
    /\ UNCHANGED <<accounts, invitationUsage, transactions, upgrades, relayTxs,
                   clock, dayLength, nreq>>

\* [1, 2].includes(targetLevel)
ValidTargetLevel(targetLevel) == targetLevel \in {1, 2}

\* the level is checked, then contract.upgradeMembership(user, targetLevel) is called
RelayUpgradeMembership(p, user, targetLevel, limit) ==
    /\ Receive(p, limit)
    /\ LET r == Request("relay-upgrade-membership",
                   [user |-> user, targetLevel |-> targetLevel])
       IN IF ~ValidTargetLevel(targetLevel)
          THEN /\ req' = [req EXCEPT ![p] =
                      Failure(r, 400, "Invalid membership level (must be 1 or 2)")]
               /\ UNCHANGED relayTxs
          ELSE /\ relayTxs' = Append(relayTxs, RelayTx("upgradeMembership", user))
               /\ req' = [req EXCEPT ![p] =
                      Goto(r, "rum_wait", [tx |-> Len(relayTxs) + 1])]
    /\ UNCHANGED <<store, clock, dayLength>>

\* contract.upgradeMembership(user, targetLevel) throws: nothing was sent
RelayUpgradeMembershipFails(p, user, targetLevel, limit) ==
    /\ Receive(p, limit)
    /\ ValidTargetLevel(targetLevel)
    /\ req' = [req EXCEPT ![p] =
           Failure(Request("relay-upgrade-membership",
                       [user |-> user, targetLevel |-> targetLevel]),
                   500, "err.message")]
    /\ UNCHANGED <<store, relayTxs, clock, dayLength>>

RelayUpgradeMembershipConfirm(p) ==
    /\ req[p].pc = "rum_wait"
    /\ relayTxs' = [relayTxs EXCEPT ![req[p].tx].status = "confirmed"]
    /\ req' = [req EXCEPT ![p] = Goto(req[p], "rum_log", <<>>)]
    /\ UNCHANGED <<store, clock, dayLength, nreq>>

RelayUpgradeMembershipRevert(p) ==
    /\ req[p].pc = "rum_wait"
    /\ relayTxs' = [relayTxs EXCEPT ![req[p].tx].status = "reverted"]
    /\ req' = [req EXCEPT ![p] = Failure(req[p], 500, "err.message")]
    /\ UNCHANGED <<store, clock, dayLength, nreq>>

\* db.collection("upgrades").doc(user).set({upgradedAt, level, txHash}), then
\* the response
RelayUpgradeMembershipLog(p) ==
    /\ req[p].pc = "rum_log"
    /\ upgrades' = [upgrades EXCEPT ![req[p].body.user] =
           [exists |-> TRUE, level |-> req[p].body.targetLevel, txHash |-> req[p].tx]]
    /\ req' = [req EXCEPT ![p] =
           Reply(req[p], 200, [success |-> TRUE, txHash |-> req[p].tx])]
    /\ UNCHANGED <<accounts, invitationUsage, transactions, claims, relayTxs,
                   clock, dayLength, nreq>>

----------------------------------------------------------------------------
(* The POST routes, in the order of their registration (app.post), and the  *)
(* second handler registered for /api/daily-claim                           *)

RouteTable ==
    <<[path |-> "/api/create-account", handler |-> "create-account"],
      [path |-> "/api/create-default-user", handler |-> "create-default-user"],
      [path |-> "/api/activate-account", handler |-> "activate-account"],
      [path |-> "/api/daily-claim", handler |-> "daily-claim"],
      [path |-> "/api/daily-claim", handler |-> "daily-claim-offchain"],
      [path |-> "/api/update-balance", handler |-> "update-balance"],
      [path |-> "/api/update-membership", handler |-> "update-membership"],
      [path |-> "/relay/daily-claim", handler |-> "relay-daily-claim"],
      [path |-> "/relay/upgrade-membership", handler |-> "relay-upgrade-membership"]>>

\* does the handler pass the request on to the next matching layer?  The
\* handlers are all async (req, res) => ..., none takes or calls next
CallsNext(handler) == FALSE

\* the handlers that serve a request of this path, from layer i on: the router
\* calls the first layer that matches, and the layers after it only through next()
RECURSIVE Chain(_, _)
Chain(path, i) ==
    IF i > Len(RouteTable) THEN <<>>
    ELSE IF RouteTable[i].path # path THEN Chain(path, i + 1)
    ELSE <<RouteTable[i].handler>>
             \o (IF CallsNext(RouteTable[i].handler) THEN Chain(path, i + 1) ELSE <<>>)

\* the router taking the layer registered last
ServedByLast(path) ==
    LET matching == {i \in DOMAIN RouteTable : RouteTable[i].path = path}
    IN <<RouteTable[CHOOSE i \in matching : \A j \in matching : j <= i].handler>>

Served(path) == Chain(path, 1)

\* the off-chain handler: the request arrives, the account is read, the streak
\* and the reward are computed
OffchainClaimRead(r) ==
    LET accountData == accounts[r.body.walletAddress]
        today == LocalMidnight(clock)
    IN IF r.body.transactionHash = Undefined
       THEN Failure(r, 400, "Missing wallet address or transaction hash")
       ELSE IF ~accountData.exists
       THEN Failure(r, 404, "Account not found")
       ELSE IF ~accountData.isActivated
       THEN Failure(r, 400, "Account is not activated")
       ELSE IF ClaimedToday(accountData, today)
       THEN Failure(r, 400, "Already claimed today")
       ELSE Goto(r, "dco_update",
                [now |-> clock,
                 consecutiveDays |-> ConsecutiveDays(accountData, today),
                 finalReward |-> FinalReward(EnbReward(accountData, today),
                                             accountData.membershipLevel),
                 enbBalance |-> accountData.enbBalance,
                 totalEarned |-> accountData.totalEarned,
                 tx |-> r.body.transactionHash[1]])

\* the off-chain handler: accountRef.update({...}) with the client's
\* transactionHash, then the 200 response
OffchainClaimUpdate(p) ==
    /\ req[p].pc = "dco_update"
    /\ accounts' = [accounts EXCEPT ![req[p].body.walletAddress] =
                        ClaimedAccount(@, req[p])]
    /\ req' = [req EXCEPT ![p] = Reply(req[p], 200,
           [message |-> "Daily claim successful", reward |-> req[p].finalReward,
            consecutiveDays |-> req[p].consecutiveDays,
            newBalance |-> req[p].enbBalance + req[p].finalReward])]
    /\ UNCHANGED <<invitationUsage, transactions, claims, upgrades, relayTxs,
                   clock, dayLength, nreq>>

\* POST /api/daily-claim arrives: the router hands it to the handler that
\* serves the path, which reads the account
PostDailyClaim(p, w, transactionHash, limit) ==
    /\ Receive(p, limit)
    /\ LET handler == Served("/api/daily-claim")[1]
           r == Request(handler, [walletAddress |-> w,
                                  transactionHash |-> transactionHash])
       IN req' = [req EXCEPT ![p] =
              IF handler = "daily-claim" THEN DailyClaimRead(r)
              ELSE OffchainClaimRead(r)]
    /\ UNCHANGED <<store, relayTxs, clock, dayLength>>

\* the account update of the handler that serves the request
PostDailyClaimUpdate(p) ==
    /\ req[p].pc \in {"dc_update", "dco_update"}
    /\ IF req[p].pc = "dc_update" THEN DailyClaimUpdate(p) ELSE OffchainClaimUpdate(p)

----------------------------------------------------------------------------
(* The default user of the runs that follow one wallet: the first wallet,   *)
(* created by create-default-user with this code                            *)

DefaultUser == CHOOSE w \in Wallets : \A v \in Wallets : w <= v
DefaultUserCode == "A1"

----------------------------------------------------------------------------
(* The host clock *)

Tick ==
    /\ clock + HoursPerDay < EndOfTime
    /\ clock' = clock + HoursPerDay
    /\ UNCHANGED <<store, relayTxs, req, dayLength, nreq>>

----------------------------------------------------------------------------
(* Initial state: an empty store and no request in flight *)

\* a time zone without daylight saving
RegularCalendar == [d \in Days |-> HoursPerDay]

\* time zones with at most one daylight-saving transition in the days modelled
Calendars ==
    {f \in [Days -> {HoursPerDay - 1, HoursPerDay, HoursPerDay + 1}] :
        Cardinality({d \in Days : f[d] # HoursPerDay}) <= 1}

EmptyStore ==
    /\ accounts = [w \in Wallets |-> NoDoc]
    /\ invitationUsage = <<>>
    /\ transactions = <<>>
    /\ claims = [w \in Wallets |-> NoDoc]
    /\ upgrades = [w \in Wallets |-> NoDoc]
    /\ relayTxs = <<>>
    /\ req = [p \in Procs |-> Idle]
    /\ clock = 0
    /\ nreq = 0

----------------------------------------------------------------------------
(* Requests handled one at a time: claims and upgrades of one wallet, in    *)
(* any time zone                                                            *)

ClaimInit == EmptyStore /\ dayLength \in Calendars

ClaimNext ==
    \/ CreateDefaultUser(1, DefaultUser, DefaultUserCode, Undefined, MaxSeqRequests)
    \/ CreateDefaultUserWrite(1)
    \/ DailyClaim(1, DefaultUser, MaxSeqRequests)
    \/ DailyClaimSubmit(1)
    \/ DailyClaimSubmitFails(1)
    \/ DailyClaimConfirm(1)
    \/ DailyClaimRevert(1)
    \/ DailyClaimUpdate(1)
    \/ DailyClaimLog(1)
    \/ \E level \in LevelInputs :
           UpdateMembership(1, DefaultUser, level, MaxSeqRequests)
    \/ UpdateMembershipSubmit(1)
    \/ UpdateMembershipSubmitFails(1)
    \/ UpdateMembershipConfirm(1)
    \/ UpdateMembershipRevert(1)
    \/ UpdateMembershipUpdate(1)
    \/ UpdateMembershipLog(1)
    \/ Tick

ClaimSpec == ClaimInit /\ [][ClaimNext]_vars

----------------------------------------------------------------------------
(* Accounts, invitations and activations: the requests of the three routes, *)
(* handled by the slots of procs                                            *)

\* maxUses of a create-default-user body: left out, negative, or small
MaxUsesInputs == {Undefined, Some(-1), Some(1)}

\* the invitation codes create-default-user is called with
DefaultUserCodes == {"A1"}

InviteInit == EmptyStore /\ dayLength = RegularCalendar

\* defaults: the wallets create-default-user is called for, with these limits;
\* wallets: the wallets create-account and activate-account are called for
InviteNext(procs, limit, defaults, limits, wallets) ==
    \E p \in procs :
        \/ \E w \in wallets, code \in Codes : CreateAccount(p, w, code, limit)
        \/ \E code \in Codes : CreateAccountRetry(p, code)
        \/ CreateAccountWrite(p)
        \/ \E w \in defaults, code \in DefaultUserCodes, maxUses \in limits :
               CreateDefaultUser(p, w, code, maxUses, limit)
        \/ CreateDefaultUserWrite(p)
        \/ \E w \in wallets, code \in Codes : ActivateAccount(p, w, code, limit)
        \/ ActivateAccountInviter(p)
        \/ ActivateAccountUsage(p)
        \/ ActivateAccountCommit(p)

\* one request at a time
InviteSeqNext == InviteNext({1}, MaxSeqRequests, Wallets, MaxUsesInputs, Wallets)

InviteSeqSpec == InviteInit /\ [][InviteSeqNext]_vars

\* requests in flight together.  The store the server finds at start holds
\* one default user, as create-default-user wrote it; the other wallets create
\* accounts and activate them
SeededStore(maxUses) ==
    /\ accounts = [w \in Wallets |->
                      IF w = DefaultUser
                      THEN NewAccount(w, DefaultUserCode, DefaultUserLimit(maxUses),
                                      Some(0), TRUE)
                      ELSE NoDoc]
    /\ invitationUsage = <<>>
    /\ transactions = <<>>
    /\ claims = [w \in Wallets |-> NoDoc]
    /\ upgrades = [w \in Wallets |-> NoDoc]
    /\ relayTxs = <<>>
    /\ req = [p \in Procs |-> Idle]
    /\ clock = 0
    /\ nreq = 0
    /\ dayLength = RegularCalendar

InviteRaceInit == \E maxUses \in {Undefined, Some(1)} : SeededStore(maxUses)

InviteRaceNext ==
    \E p \in Procs :
        \/ \E w \in Wallets \ {DefaultUser}, code \in Codes :
               CreateAccount(p, w, code, MaxRequests)
        \/ \E code \in Codes : CreateAccountRetry(p, code)
        \/ CreateAccountWrite(p)
        \/ \E w \in Wallets \ {DefaultUser}, code \in Codes :
               ActivateAccount(p, w, code, MaxRequests)
        \/ ActivateAccountInviter(p)
        \/ ActivateAccountUsage(p)
        \/ ActivateAccountCommit(p)

InviteSpec == InviteRaceInit /\ [][InviteRaceNext]_vars

----------------------------------------------------------------------------
(* Claims and balance updates of one activated wallet, requests in flight   *)
(* together.  The store the server finds at start holds that wallet as      *)
(* create-default-user wrote it                                             *)

\* amount of an update-balance body
Amounts == {-5, 5, 20}

LedgerInit == SeededStore(Undefined)

LedgerNext(procs, limit) ==
    \E p \in procs :
        \/ \E amount \in Amounts, type \in {"credit", "debit"} :
               UpdateBalance(p, DefaultUser, amount, type, limit)
        \/ UpdateBalanceCommit(p)
        \/ DailyClaim(p, DefaultUser, limit)
        \/ DailyClaimSubmit(p)
        \/ DailyClaimSubmitFails(p)
        \/ DailyClaimConfirm(p)
        \/ DailyClaimRevert(p)
        \/ DailyClaimUpdate(p)
        \/ DailyClaimLog(p)

\* one request at a time
LedgerSeqNext == LedgerNext({1}, MaxSeqRequests)

LedgerSeqSpec == LedgerInit /\ [][LedgerSeqNext]_vars

\* requests in flight together
LedgerRaceNext == LedgerNext(Procs, MaxRequests)

LedgerSpec == LedgerInit /\ [][LedgerRaceNext]_vars

----------------------------------------------------------------------------
(* The four routes that call the relayer, one request at a time.  The store *)
(* holds the activated default user and the account of a second wallet as   *)
(* create-account wrote it, not activated; the other wallets have none      *)

\* targetLevel of a /relay/upgrade-membership body
TargetLevels == {0, 1, 2}

\* the wallet that has created its account and has not activated it
NewUser == CHOOSE w \in Wallets \ {DefaultUser} :
               \A v \in Wallets \ {DefaultUser} : w <= v
NewUserCode == "B2"

RelayInit ==
    /\ accounts = [w \in Wallets |->
                      IF w = DefaultUser
                      THEN NewAccount(w, DefaultUserCode, DefaultUserLimit(Undefined),
                                      Some(0), TRUE)
                      ELSE IF w = NewUser
                      THEN NewAccount(w, NewUserCode, Undefined, Undefined, FALSE)
                      ELSE NoDoc]
    /\ invitationUsage = <<>>
    /\ transactions = <<>>
    /\ claims = [w \in Wallets |-> NoDoc]
    /\ upgrades = [w \in Wallets |-> NoDoc]
    /\ relayTxs = <<>>
    /\ req = [p \in Procs |-> Idle]
    /\ clock = 0
    /\ nreq = 0
    /\ dayLength = RegularCalendar

RelayNext ==
    \/ \E w \in Wallets : DailyClaim(1, w, MaxRelayRequests)
    \/ DailyClaimSubmit(1)
    \/ DailyClaimSubmitFails(1)
    \/ DailyClaimConfirm(1)
    \/ DailyClaimRevert(1)
    \/ DailyClaimUpdate(1)
    \/ DailyClaimLog(1)
    \/ \E w \in Wallets, level \in LevelInputs :
           UpdateMembership(1, w, level, MaxRelayRequests)
    \/ UpdateMembershipSubmit(1)
    \/ UpdateMembershipSubmitFails(1)
    \/ UpdateMembershipConfirm(1)
    \/ UpdateMembershipRevert(1)
    \/ UpdateMembershipUpdate(1)
    \/ UpdateMembershipLog(1)
    \/ \E user \in Wallets : RelayDailyClaim(1, user, MaxRelayRequests)
    \/ \E user \in Wallets : RelayDailyClaimFails(1, user, MaxRelayRequests)
    \/ RelayDailyClaimConfirm(1)
    \/ RelayDailyClaimRevert(1)
    \/ RelayDailyClaimLog(1)
    \/ \E user \in Wallets, targetLevel \in TargetLevels :
           RelayUpgradeMembership(1, user, targetLevel, MaxRelayRequests)
    \/ \E user \in Wallets, targetLevel \in TargetLevels :
           RelayUpgradeMembershipFails(1, user, targetLevel, MaxRelayRequests)
    \/ RelayUpgradeMembershipConfirm(1)
    \/ RelayUpgradeMembershipRevert(1)
    \/ RelayUpgradeMembershipLog(1)

RelaySpec == RelayInit /\ [][RelayNext]_vars

\* the requests of /api/daily-claim and /api/update-membership alone
ApiRelayNext ==
    \/ \E w \in Wallets : DailyClaim(1, w, MaxRelayRequests)
    \/ DailyClaimSubmit(1)
    \/ DailyClaimSubmitFails(1)
    \/ DailyClaimConfirm(1)
    \/ DailyClaimRevert(1)
    \/ DailyClaimUpdate(1)
    \/ DailyClaimLog(1)
    \/ \E w \in Wallets, level \in LevelInputs :
           UpdateMembership(1, w, level, MaxRelayRequests)
    \/ UpdateMembershipSubmit(1)
    \/ UpdateMembershipSubmitFails(1)
    \/ UpdateMembershipConfirm(1)
    \/ UpdateMembershipRevert(1)
    \/ UpdateMembershipUpdate(1)
    \/ UpdateMembershipLog(1)

ApiRelaySpec == RelayInit /\ [][ApiRelayNext]_vars

----------------------------------------------------------------------------
(* Claims of a wallet that has a streak, one request at a time, in any time *)
(* zone.  The store the server finds at start holds the default user after  *)
(* an upgrade to its level and claims on n days in a row, the last of them  *)
(* at the start of day 1                                                    *)

\* what n claims in a row have credited at this level
RECURSIVE Earned(_, _)
Earned(n, level) ==
    IF n = 0 THEN 0
    ELSE Earned(n - 1, level) + FinalReward(BaseReward * Min(n, StreakCap), level)

\* the relayer's transactions by then: the upgrade, if any, and the n claims
StreakTxs(n, level) ==
    LET upgrade == IF level = "Based" THEN <<>>
                   ELSE <<[RelayTx("upgradeMembership", DefaultUser)
                               EXCEPT !.status = "confirmed"]>>
    IN upgrade \o [i \in 1..n |->
                      [RelayTx("dailyClaim", DefaultUser) EXCEPT !.status = "confirmed"]]

\* the account by then, as create-default-user, update-membership and
\* daily-claim wrote it
StreakAccount(n, level) ==
    LET created == NewAccount(DefaultUser, DefaultUserCode,
                              DefaultUserLimit(Undefined), Some(0), TRUE)
        upgraded == IF level = "Based" THEN created
                    ELSE [created EXCEPT !.membershipLevel = level,
                                         !.upgradeTransactionHash = Some(1)]
    IN IF n = 0 THEN upgraded
       ELSE [upgraded EXCEPT !.lastDailyClaimTime = Some(0),
                             !.consecutiveDays = n,
                             !.enbBalance = Earned(n, level),
                             !.totalEarned = Earned(n, level),
                             !.lastTransactionHash = Some(Len(StreakTxs(n, level)))]

StreakStore(n, level) ==
    /\ accounts = [w \in Wallets |->
                      IF w = DefaultUser THEN StreakAccount(n, level) ELSE NoDoc]
    /\ invitationUsage = <<>>
    /\ transactions = <<>>
    /\ claims = [w \in Wallets |->
                    IF w = DefaultUser /\ n > 0
                    THEN [exists |-> TRUE, claimedAt |-> 0,
                          reward |-> FinalReward(BaseReward * Min(n, StreakCap), level),
                          consecutiveDays |-> n,
                          txHash |-> Len(StreakTxs(n, level))]
                    ELSE NoDoc]
    /\ upgrades = [w \in Wallets |->
                      IF w = DefaultUser /\ level # "Based"
                      THEN [exists |-> TRUE, level |-> LevelNumber(level), txHash |-> 1]
                      ELSE NoDoc]
    /\ relayTxs = StreakTxs(n, level)
    /\ req = [p \in Procs |-> Idle]
    /\ clock = 0
    /\ nreq = 0

StreakInit ==
    /\ \E n \in 0..MaxStreak, level \in Levels : StreakStore(n, level)
    /\ dayLength \in Calendars

StreakNext ==
    \/ DailyClaim(1, DefaultUser, MaxSeqRequests)
    \/ DailyClaimSubmit(1)
    \/ DailyClaimSubmitFails(1)
    \/ DailyClaimConfirm(1)
    \/ DailyClaimRevert(1)
    \/ DailyClaimUpdate(1)
    \/ DailyClaimLog(1)
    \/ Tick

StreakSpec == StreakInit /\ [][StreakNext]_vars

----------------------------------------------------------------------------
(* Account creation alone, one request at a time, from an empty store.  A   *)
(* handler that waits for the store is resumed when the store answers       *)

GenerateNext ==
    \/ \E w \in Wallets, code \in Codes : CreateAccount(1, w, code, MaxSeqRequests)
    \/ \E code \in Codes : CreateAccountRetry(1, code)
    \/ CreateAccountWrite(1)

GenerateFairness ==
    /\ WF_vars(\E code \in Codes : CreateAccountRetry(1, code))
    /\ WF_vars(CreateAccountWrite(1))

GenerateSpec == InviteInit /\ [][GenerateNext]_vars /\ GenerateFairness

----------------------------------------------------------------------------
(* Requests of POST /api/daily-claim through the router, one at a time,     *)
(* with and without a transaction hash of the client                        *)

\* transactionHash of a daily-claim body: left out, or the hash of a
\* transaction that is not the relayer's
ClientHashes == {Undefined, Some(0)}

RouteInit == SeededStore(Undefined)

RouteNext ==
    \/ \E w \in Wallets, transactionHash \in ClientHashes :
           PostDailyClaim(1, w, transactionHash, MaxSeqRequests)
    \/ DailyClaimSubmit(1)
    \/ DailyClaimSubmitFails(1)
    \/ DailyClaimConfirm(1)
    \/ DailyClaimRevert(1)
    \/ PostDailyClaimUpdate(1)
    \/ DailyClaimLog(1)
    \/ Tick

RouteSpec == RouteInit /\ [][RouteNext]_vars

----------------------------------------------------------------------------
(* Daily claims of the default user, one request at a time, with a relayer  *)
(* and a store that can fail                                                *)

FaultNext ==
    \/ DailyClaim(1, DefaultUser, MaxSeqRequests)
    \/ DailyClaimSubmit(1)
    \/ DailyClaimSubmitFails(1)
    \/ DailyClaimConfirm(1)
    \/ DailyClaimRevert(1)
    \/ DailyClaimUpdate(1)
    \/ DailyClaimUpdateFails(1)
    \/ DailyClaimLog(1)
    \/ DailyClaimLogFails(1)
    \/ Tick

FaultSpec == LedgerInit /\ [][FaultNext]_vars

----------------------------------------------------------------------------
(* Properties of the daily claim, requests handled one at a time *)

\* slot p receives a request of this route in this step
Arrives(p, kind) ==
    /\ nreq' = nreq + 1
    /\ req'[p].pc # "idle"
    /\ req'[p].id = nreq'
    /\ req'[p].kind = kind

\* this step records a claim in the account of w
ClaimRecorded(w) ==
    /\ accounts[w].exists
    /\ accounts'[w].exists
    /\ accounts'[w].lastDailyClaimTime # Undefined
    /\ accounts'[w].lastTransactionHash # accounts[w].lastTransactionHash

\* floor(10 * min(n, 5) * m), m = 1, 1.5 or 2
ExpectedReward(n, level) ==
    LET base == 10 * (IF n < 5 THEN n ELSE 5)
    IN CASE level = "Based" -> base
         [] level = "Super Based" -> (3 * base) \div 2
         [] level = "Legendary" -> 2 * base

\* C1: the first claim of a fresh account sets the streak to 1, a claim on the
\* calendar day after the previous claim adds 1 to the streak, and the n-th
\* claim of the streak credits floor(10 * min(n,5) * m) for the wallet's level
C1_StreakReward ==
    [][\A w \in Wallets : ClaimRecorded(w) =>
          LET old == accounts[w]
              new == accounts'[w]
              credit == new.enbBalance - old.enbBalance
          IN /\ (old.lastDailyClaimTime = Undefined /\ old.consecutiveDays = 0)
                    => /\ new.consecutiveDays = 1
                       /\ credit = ExpectedReward(1, old.membershipLevel)
             /\ (/\ old.lastDailyClaimTime # Undefined
                 /\ LocalDate(new.lastDailyClaimTime[1])
                        = LocalDate(old.lastDailyClaimTime[1]) + 1)
                    => /\ new.consecutiveDays = old.consecutiveDays + 1
                       /\ credit = ExpectedReward(new.consecutiveDays,
                                                  old.membershipLevel)]_vars

\* C2: a daily claim that arrives on the calendar date of the wallet's last
\* claim ends at once with 400 'Already claimed today'; the relayer is not
\* called and the account is left as it is
C2_AlreadyClaimedToday ==
    [][\A p \in Procs : Arrives(p, "daily-claim") =>
          LET a == accounts[req'[p].body.walletAddress]
          IN (/\ a.exists
              /\ a.isActivated
              /\ a.lastDailyClaimTime # Undefined
              /\ LocalDate(a.lastDailyClaimTime[1]) = LocalDate(clock))
             => /\ req'[p].pc = "done"
                /\ req'[p].status = 400
                /\ req'[p].error = "Already claimed today"
                /\ relayTxs' = relayTxs
                /\ accounts' = accounts]_vars

\* a second claim of the day was turned down
C2_Witness ==
    \E p \in Procs :
        /\ req[p].pc = "done"
        /\ req[p].kind = "daily-claim"
        /\ req[p].status = 400
        /\ req[p].error = "Already claimed today"
        /\ accounts[req[p].body.walletAddress].consecutiveDays >= 1
        /\ LocalDate(accounts[req[p].body.walletAddress].lastDailyClaimTime[1])
               = LocalDate(clock)

\* the relayer transaction with this hash is confirmed and is this call
ConfirmedCall(hash, method, w) ==
    /\ hash \in DOMAIN relayTxs
    /\ relayTxs[hash].status = "confirmed"
    /\ relayTxs[hash].method = method
    /\ relayTxs[hash].user = w

\* every transaction hash the store holds is the hash of a confirmed call
StoreAfterConfirmation ==
    \A w \in Wallets :
        /\ (accounts[w].exists /\ accounts[w].lastTransactionHash # Undefined)
               => ConfirmedCall(accounts[w].lastTransactionHash[1], "dailyClaim", w)
        /\ (accounts[w].exists /\ accounts[w].upgradeTransactionHash # Undefined)
               => ConfirmedCall(accounts[w].upgradeTransactionHash[1],
                                "upgradeMembership", w)
        /\ claims[w].exists => ConfirmedCall(claims[w].txHash, "dailyClaim", w)
        /\ upgrades[w].exists
               => ConfirmedCall(upgrades[w].txHash, "upgradeMembership", w)

\* a handler that has not seen its relayer call confirmed leaves the store alone
NoWriteBeforeConfirmation ==
    \A p \in Procs :
        (req[p].pc \in {"dc_submit", "dc_wait", "um_submit", "um_wait"}
            /\ req'[p] # req[p])
        => /\ UNCHANGED store
           /\ \/ req'[p].pc \in {"dc_wait", "dc_update", "um_wait", "um_update"}
              \/ req'[p].pc = "done" /\ req'[p].status = 500

\* C10: daily-claim and update-membership write the store only after the
\* relayer call is sent and confirmed; when sending or confirming fails the
\* request ends with an error and no document is created or modified
C10_WriteAfterConfirmation ==
    [](StoreAfterConfirmation) /\ [][NoWriteBeforeConfirmation]_vars

\* a claim ended with an error because its relayer transaction reverted,
\* next to documents written by calls that were confirmed
C10_Witness ==
    /\ relayTxs # <<>>
    /\ relayTxs[Len(relayTxs)].status = "reverted"
    /\ \E p \in Procs : req[p].pc = "done" /\ req[p].status = 500
    /\ \E w \in Wallets : claims[w].exists /\ upgrades[w].exists

----------------------------------------------------------------------------
(* Properties of activation *)

Passes == [status |-> 200, error |-> ""]

Fails(status, error) == [status |-> status, error |-> error]

\* the usage limit of an inviter: its maxInvitationUses, 5 without the field
UsageLimit(doc) ==
    IF doc.maxInvitationUses = Undefined THEN 5 ELSE doc.maxInvitationUses[1]

\* the uses of an inviter: its currentInvitationUses, 0 without the field
UsesSoFar(doc) ==
    IF doc.currentInvitationUses = Undefined THEN 0 ELSE doc.currentInvitationUses[1]

\* the usage records that name this code
RecordsOf(code) ==
    {i \in DOMAIN invitationUsage : invitationUsage[i].invitationCode = code}

\* the first precondition of activate-account that fails in the current store
ExpectedActivation(w, code) ==
    IF ~accounts[w].exists THEN Fails(404, "Account not found")
    ELSE IF accounts[w].isActivated THEN Fails(400, "Account is already activated")
    ELSE IF \A v \in Wallets : ~(accounts[v].exists /\ accounts[v].invitationCode = code)
    THEN Fails(400, "Invalid invitation code")
    ELSE LET inviter == CHOOSE v \in Wallets :
                            accounts[v].exists /\ accounts[v].invitationCode = code
         IN IF ~accounts[inviter].isActivated
            THEN Fails(400, "Invitation code is from an inactive account")
            ELSE IF UsesSoFar(accounts[inviter]) >= UsageLimit(accounts[inviter])
            THEN Fails(400, "Invitation code usage limit exceeded")
            ELSE IF \E i \in RecordsOf(code) : invitationUsage[i].usedBy = w
            THEN Fails(400, "You have already used this invitation code")
            ELSE Passes

AccountErrors ==
    {Fails(404, "Account not found"), Fails(400, "Account is already activated")}

InviterErrors ==
    {Fails(400, "Invalid invitation code"),
     Fails(400, "Invitation code is from an inactive account"),
     Fails(400, "Invitation code usage limit exceeded")}

\* an activation is turned down with the first precondition that fails, and
\* goes on only past the preconditions that hold
ActivationInOrder ==
    \A p \in Procs :
        (req[p].pc # "idle" /\ req[p].kind = "activate-account") =>
            LET e == ExpectedActivation(req[p].body.walletAddress,
                                        req[p].body.invitationCode)
            IN /\ (req[p].pc = "done" /\ req[p].status # 200)
                      => Fails(req[p].status, req[p].error) = e
               /\ req[p].pc = "aa_inviter" => e \notin AccountErrors
               /\ req[p].pc = "aa_usage" => e \notin AccountErrors \cup InviterErrors
               /\ req[p].pc = "aa_commit" => e = Passes

\* the steps of an activation before its commit write nothing, and the commit
\* is the step that answers 200
RejectionWritesNothing ==
    \A p \in Procs :
        /\ (Arrives(p, "activate-account")
              \/ (req[p].pc \in {"aa_inviter", "aa_usage"} /\ req'[p] # req[p]))
               => /\ UNCHANGED store
                  /\ req'[p].pc = "done" => req'[p].status # 200
        /\ (req[p].pc = "aa_commit" /\ req'[p] # req[p])
               => req'[p].pc = "done" /\ req'[p].status = 200

\* C4: activate-account checks its six preconditions in the fixed order and
\* answers with the first that fails; a rejected activation writes nothing
C4_ActivationChecks ==
    [](ActivationInOrder) /\ [][RejectionWritesNothing]_vars

\* an activation was turned down because the inviter's code is used up
C4_Witness ==
    \E p \in Procs :
        /\ req[p].pc = "done"
        /\ req[p].kind = "activate-account"
        /\ req[p].status = 400
        /\ req[p].error = "Invitation code usage limit exceeded"
        /\ \E v \in Wallets :
              /\ accounts[v].exists
              /\ accounts[v].invitationCode = req[p].body.invitationCode
              /\ UsesSoFar(accounts[v]) >= 1
              /\ UsesSoFar(accounts[v]) = UsageLimit(accounts[v])

\* C5: the usage counter of every account equals the number of usage records
\* that name its invitation code (one record per successful activation)
C5_UsesMatchRecords ==
    \A w \in Wallets :
        accounts[w].exists =>
            UsesSoFar(accounts[w]) = Cardinality(RecordsOf(accounts[w].invitationCode))

\* C6: no two usage records name the same invitation code and the same wallet
C6_OneUsePerWallet ==
    \A code \in Codes, w \in Wallets : Cardinality(UsagesOf(code, w)) <= 1

\* C7: no account has more uses than its limit
C7_UsesWithinLimit ==
    \A w \in Wallets :
        accounts[w].exists => UsesSoFar(accounts[w]) <= UsageLimit(accounts[w])

----------------------------------------------------------------------------
(* Properties of claims in flight together and of the balance *)

\* the handler of slot p has sent dailyClaim for its wallet, or has answered 200
ClaimSent(p) ==
    /\ req[p].pc # "idle"
    /\ req[p].kind = "daily-claim"
    /\ \/ req[p].pc \in {"dc_wait", "dc_update", "dc_log"}
       \/ req[p].pc = "done" /\ req[p].status = 200

\* C3: of the daily-claim requests of one wallet on one calendar day, in
\* flight together or not, at most one has its dailyClaim sent by the
\* relayer and at most one succeeds
C3_OneClaimPerDay ==
    \A p, q \in Procs :
        (/\ p # q
         /\ ClaimSent(p)
         /\ ClaimSent(q)
         /\ req[p].body.walletAddress = req[q].body.walletAddress)
        => LocalDate(req[p].now) # LocalDate(req[q].now)

\* no debit on record took more than the balance it was computed from
NoOverdraftRecorded ==
    \A i \in DOMAIN transactions :
        transactions[i].type = "debit"
            => transactions[i].amount <= transactions[i].balanceBefore

\* a debit that asks for more than the balance is turned down on arrival
OverdraftRejected ==
    \A p \in Procs :
        Arrives(p, "update-balance") =>
            LET b == req'[p].body
            IN (/\ b.type = "debit"
                /\ accounts[b.walletAddress].exists
                /\ b.amount > accounts[b.walletAddress].enbBalance)
               => /\ req'[p].pc = "done"
                  /\ req'[p].status = 400
                  /\ req'[p].error = "Insufficient balance"
                  /\ accounts' = accounts
                  /\ transactions' = transactions

\* C8: a debit of more than the account's balance is rejected with 400
\* 'Insufficient balance'; the balance is unchanged and no transaction record
\* is appended
C8_DebitRejected ==
    [](NoOverdraftRecorded) /\ [][OverdraftRejected]_vars

\* a debit of more than a positive balance was turned down
C8_Witness ==
    \E p \in Procs :
        /\ req[p].pc = "done"
        /\ req[p].kind = "update-balance"
        /\ req[p].status = 400
        /\ req[p].error = "Insufficient balance"
        /\ req[p].body.type = "debit"
        /\ accounts[req[p].body.walletAddress].enbBalance > 0
        /\ req[p].body.amount > accounts[req[p].body.walletAddress].enbBalance

\* C9: the balance of every account is at least 0
C9_BalanceNonNegative ==
    \A w \in Wallets : accounts[w].exists => accounts[w].enbBalance >= 0

----------------------------------------------------------------------------
(* Properties of the routes that call the relayer *)

\* this step sends a transaction of the relayer wallet
RelayerCalled == Len(relayTxs') = Len(relayTxs) + 1

\* C11: on every route the relayer's dailyClaim and upgradeMembership are
\* called for a wallet only if the wallet has an account and the account is
\* activated
C11_RelayerOnlyForActivated ==
    [][RelayerCalled =>
          LET w == relayTxs'[Len(relayTxs')].user
          IN accounts[w].exists /\ accounts[w].isActivated]_vars

----------------------------------------------------------------------------
(* Properties of account creation *)

\* the handler of slot p, serving a request of this route, takes this step
Steps(p, kind) ==
    /\ req'[p] # req[p]
    /\ req'[p].pc # "idle"
    /\ req'[p].kind = kind

\* C12: create-account for a wallet that has an account document fails and
\* leaves the document as it is (balance, earnings, streak, activation,
\* invitation code and the other fields)
C12_DuplicateAccountRejected ==
    [][\A p \in Procs : Steps(p, "create-account") =>
          LET w == req'[p].body.walletAddress
          IN accounts[w].exists
                 => /\ accounts'[w] = accounts[w]
                    /\ ~(req'[p].pc = "done" /\ req'[p].status = 201)]_vars

----------------------------------------------------------------------------
(* Properties of the streak *)

\* C13: a claim recorded two or more calendar days after the wallet's last
\* claim sets the streak to 1, whatever it was, and credits floor(10 * m) for
\* the multiplier m of the wallet's level: 10, 15 or 20
C13_GapResetsStreak ==
    [][\A w \in Wallets : ClaimRecorded(w) =>
          LET old == accounts[w]
              new == accounts'[w]
              credit == new.enbBalance - old.enbBalance
          IN (/\ old.lastDailyClaimTime # Undefined
              /\ LocalDate(new.lastDailyClaimTime[1])
                     >= LocalDate(old.lastDailyClaimTime[1]) + 2)
             => /\ new.consecutiveDays = 1
                /\ credit = ExpectedReward(1, old.membershipLevel)
                /\ credit \in {10, 15, 20}
                /\ new.totalEarned = old.totalEarned + credit]_vars

\* a wallet with a streak of three days or more and a level above Based has
\* claimed again after a day without a claim
C13_Witness ==
    /\ dayLength = RegularCalendar
    /\ accounts[DefaultUser].membershipLevel # "Based"
    /\ accounts[DefaultUser].consecutiveDays = 1
    /\ accounts[DefaultUser].lastDailyClaimTime # Undefined
    /\ LocalDate(accounts[DefaultUser].lastDailyClaimTime[1]) = 3
    /\ Len(relayTxs) >= 5
    /\ \A i \in DOMAIN relayTxs : relayTxs[i].status = "confirmed"
    /\ accounts[DefaultUser].enbBalance
           = Earned(Len(relayTxs) - 2, accounts[DefaultUser].membershipLevel)
               + ExpectedReward(1, accounts[DefaultUser].membershipLevel)

----------------------------------------------------------------------------
(* Properties of the transaction records *)

\* C14: the commit of an update-balance changes the balance and appends one
\* transaction record in one step, and the record's balanceBefore and
\* balanceAfter are the account's balance just before and just after that
\* step, whatever other requests for the wallet are in flight
C14_TransactionSnapshot ==
    [][\A p \in Procs :
          (req[p].pc = "ub_commit" /\ req'[p] # req[p]) =>
              LET w == req[p].body.walletAddress
                  record == transactions'[Len(transactions')]
              IN /\ Len(transactions') = Len(transactions) + 1
                 /\ req'[p].pc = "done" /\ req'[p].status = 200
                 /\ record.walletAddress = w
                 /\ record.balanceBefore = accounts[w].enbBalance
                 /\ record.balanceAfter = accounts'[w].enbBalance]_vars

----------------------------------------------------------------------------
(* Properties of the invitation codes *)

\* C15: no two account documents hold the same invitation code
C15_UniqueCodes ==
    \A v, w \in Wallets :
        (accounts[v].exists /\ accounts[w].exists /\ v # w)
            => accounts[v].invitationCode # accounts[w].invitationCode

----------------------------------------------------------------------------
(* Properties of generateUniqueInvitationCode *)

\* a handler in the loop has checked between 1 and 10 candidates
AttemptsBounded ==
    \A p \in Procs : req[p].pc = "ca_generate" => req[p].attempts \in 1..10

\* the candidates checked by the handler of slot p before this step
Checked(p) == IF req[p].pc = "ca_generate" THEN req[p].attempts ELSE 0

\* a turn of the loop checks one more candidate and writes nothing; the loop
\* ends with a candidate no account holds, or with 500 after 10 candidates
GenerateStep ==
    \A p \in Procs :
        (Steps(p, "create-account") /\ req[p].pc # "ca_write") =>
            /\ UNCHANGED store
            /\ req'[p].pc \in {"ca_generate", "ca_write", "done"}
            /\ req'[p].pc = "ca_generate"
                   => /\ req'[p].attempts = Checked(p) + 1
                      /\ \E w \in Wallets : accounts[w].exists
            /\ req'[p].pc = "ca_write"
                   => /\ Checked(p) < 10
                      /\ \A w \in Wallets :
                            accounts[w].exists
                                => accounts[w].invitationCode # req'[p].invitationCode
            /\ req'[p].pc = "done"
                   => /\ Checked(p) = 10
                      /\ req'[p].status = 500

\* a create-account request is answered
GenerateTerminates ==
    \A p \in Procs :
        (req[p].pc \in {"ca_generate", "ca_write"}) ~> (req[p].pc = "done")

\* C16: generateUniqueInvitationCode terminates: it checks at most 10
\* candidates, returns the first that no account holds, and fails, so that
\* create-account answers 500 and writes nothing, when 10 in a row collide
C16_GenerateBounded ==
    [](AttemptsBounded) /\ [][GenerateStep]_vars /\ GenerateTerminates

\* a create-account was answered 500 while every code was held, next to an
\* account created with the last free code
C16_Witness ==
    /\ req[1].pc = "done"
    /\ req[1].kind = "create-account"
    /\ req[1].status = 500
    /\ \A code \in Codes : \E w \in Wallets :
           accounts[w].exists /\ accounts[w].invitationCode = code

----------------------------------------------------------------------------
(* Properties of the handler's calendar *)

\* the handler's 'yesterday', today's local midnight less 24 hours, is the
\* local midnight of the calendar date before today
YesterdayIsPreviousDate ==
    LocalDate(clock) > 1
        => LocalMidnight(clock) - HoursPerDay = Midnight(LocalDate(clock) - 1)

\* a claim that goes on to the relayer carries the streak plus one if the last
\* claim was made on the calendar date before today, and 1 if not
IncrementedWhenYesterday ==
    \A p \in Procs :
        (Arrives(p, "daily-claim") /\ req'[p].pc = "dc_submit") =>
            LET a == accounts[req'[p].body.walletAddress]
            IN req'[p].consecutiveDays =
                   IF /\ a.lastDailyClaimTime # Undefined
                      /\ LocalDate(a.lastDailyClaimTime[1]) = LocalDate(clock) - 1
                   THEN a.consecutiveDays + 1
                   ELSE 1

\* C17: the streak is incremented exactly when the last claim was made on the
\* calendar date before today's, days of 23 and 25 hours included, and the
\* handler's 'yesterday' is always the local midnight of the date before today
C17_YesterdayByCalendar ==
    [](YesterdayIsPreviousDate) /\ [][IncrementedWhenYesterday]_vars

----------------------------------------------------------------------------
(* Properties of the two handlers of POST /api/daily-claim *)

\* one handler serves the path, the relayer-backed one; no request is in the
\* hands of the off-chain handler
OneHandler ==
    /\ Served("/api/daily-claim") = <<"daily-claim">>
    /\ \A p \in Procs : req[p].pc # "idle" => req[p].kind = "daily-claim"

\* this step credits a claim to the account of w
Credited(w) ==
    /\ accounts[w].exists
    /\ accounts'[w].exists
    /\ accounts'[w].totalEarned > accounts[w].totalEarned

\* a claim is credited by the relayer-backed handler, after its own call of
\* dailyClaim is confirmed
CreditedAfterRelayer ==
    \A w \in Wallets : Credited(w) =>
        \E p \in Procs :
            /\ req[p].pc = "dc_update"
            /\ req[p].kind = "daily-claim"
            /\ req[p].body.walletAddress = w
            /\ ConfirmedCall(req[p].tx, "dailyClaim", w)
            /\ accounts'[w].lastTransactionHash = Some(req[p].tx)

\* C18: every POST /api/daily-claim is served by one handler, the
\* relayer-backed one registered first; the off-chain handler never runs, and
\* no claim is credited without a confirmed call of the relayer
C18_FirstHandlerServes ==
    [](OneHandler) /\ [][CreditedAfterRelayer]_vars

\* a request that carried a transaction hash of the client was served by the
\* relayer-backed handler and credited under the relayer's hash
C18_Witness ==
    /\ req[1].pc = "done"
    /\ req[1].kind = "daily-claim"
    /\ req[1].status = 200
    /\ req[1].body.transactionHash # Undefined
    /\ accounts[req[1].body.walletAddress].lastTransactionHash = Some(req[1].txHash)
    /\ req[1].txHash # req[1].body.transactionHash[1]
    /\ accounts[req[1].body.walletAddress].totalEarned > 0

----------------------------------------------------------------------------
(* Properties of a daily claim that fails *)

\* C19: a daily-claim request that ends with another status than 200 leaves
\* the account as the handler read it (balance, earnings, and with the time
\* of the last claim the streak written with it), also when a write to the
\* store fails after the relayer call is confirmed
C19_FailedClaimWritesNothing ==
    [][\A p \in Procs :
          (/\ Steps(p, "daily-claim")
           /\ req'[p].pc = "done"
           /\ req'[p].status # 200) =>
              LET a == accounts'[req'[p].body.walletAddress]
              IN /\ accounts' = accounts
                 /\ (~Arrives(p, "daily-claim") /\ a.exists)
                        => /\ a.enbBalance = req[p].enbBalance
                           /\ a.totalEarned = req[p].totalEarned
                           /\ a.lastDailyClaimTime # Some(req[p].now)]_vars

====
